---- MODULE Spec2Model ----
(***************************************************************************)
(* Model of web_server: the WorkerPool (src/src/server/threading.rs), the   *)
(* Server handle and its control channel (src/src/server/server.rs), the   *)
(* driver closure of the binary (src/src/bin/main.rs) and the HTTP parsers *)
(* (src/src/http).  Each part has its own specification: Spec and LiveSpec *)
(* run the pool, ServerSpec the Server handle and an arbitrary driver      *)
(* thread, RefSpec and RefLiveSpec the Server with the driver of main.rs   *)
(* owning the pool, ParseSpec the parsers.                                 *)
(*                                                                         *)
(* The pool owns N worker threads and the Sender of an mpsc channel; the   *)
(* Receiver lives in an Arc<Mutex<..>> of which every worker closure holds *)
(* one clone.  The owner of the pool (one thread: send_job, shutdown and   *)
(* drop all take &mut self) submits jobs, calls shutdown and finally drops *)
(* the pool.  Every send and every worker step is one atomic action, so    *)
(* the loop of shutdown interleaves with the workers as it does in the     *)
(* program.                                                                *)
(***************************************************************************)
EXTENDS Integers, Sequences, FiniteSets, TLC

\* ------------------------------------------------------------------ bounds
NumWorkers == 2
MaxJobs == 2
MaxShutdowns == 2
\* Server::shutdown calls and Code signals the holder of a Server makes.
MaxRequests == 2
MaxCodes == 1
\* Tokens of a line and lines of a message handed to the HTTP parsers.
MaxTokens == 3
MaxLines == 5

Workers == 1..NumWorkers
NoMsg == [kind |-> "None", id |-> 0]
\* Most messages one run can send: every job, and NumWorkers signals for
\* every shutdown call, the one Drop makes included.
MaxMsgs == MaxJobs + (MaxShutdowns + 1) * NumWorkers

VARIABLES
    chan,         \* the mpsc queue: messages sent and not yet dequeued
    sentLog,      \* history: kind of every message accepted by the channel; its index is the message id
    arc,          \* strong count of the Arc<Mutex<Receiver>>
    lockHeld,     \* the workers holding a MutexGuard of the receiver
    wstate,       \* position of every worker thread
    wmsg,         \* the `message` local of every worker
    claimLog,     \* history: <<message id, worker>> of every dequeue, in order
    ran,          \* history: how many times each job was executed to completion
    opc,          \* position of the thread that owns the pool
    si,           \* iterations of the running shutdown loop that have sent
    ji,           \* next worker Drop joins
    submitLog,    \* history: result of every send_job call
    shutdownLog,  \* history: one record per shutdown call
    \* ---- Server (server.rs)
    ctl,          \* the control channel: signals sent and not yet received
    ctlSent,      \* history: kind of every signal the control channel accepted; its index is the signal id
    ctlRx,        \* TRUE while the Receiver of the control channel exists
    ctlRecvLog,   \* history: ids of the signals the driver received, in order
    dstate,       \* the driver thread: "running", "returned" or "panicked"
    handle,       \* Server.server, the Option<JoinHandle>: "Some" or "None"
    hpc,          \* position of the thread that holds the Server
    reqLog,       \* history: one record per Server::shutdown call
    joinLog,      \* history: what every join() that returned gave
    \* ---- HTTP parsers (http/)
    hin,          \* the text handed to a parser
    hop,          \* the parser applied to it, "none" before
    hout          \* what the parser gave

poolVars == <<chan, sentLog, arc, lockHeld, wstate, wmsg, claimLog, ran,
              opc, si, ji, submitLog, shutdownLog>>
srvVars == <<ctl, ctlSent, ctlRx, ctlRecvLog, dstate, handle, hpc, reqLog, joinLog>>
httpVars == <<hin, hop, hout>>

vars == <<poolVars, srvVars, httpVars>>

ownerVars == <<opc, si, ji, submitLog, shutdownLog>>

\* ------------------------------------------------------------- the channel
\* Sender::send: the message goes to the back of the queue.
SendFront(c, m) == <<m>> \o c
Send(c, m) == Append(c, m)

\* Receiver::recv unlinks the node at the front of the queue.
Unlink(c) == IF c = <<>> THEN c ELSE Tail(c)

\* send fails exactly when the Receiver has been dropped, that is when the
\* last clone of the Arc is gone.
ReceiverAttached == arc > 0

\* A clone of the Arc is dropped with the closure of the worker that held it.
ArcDropAll(n) == 0
ArcDrop(n) == n - 1

\* Mutex::lock blocks while another thread holds the guard.
LockAlways(held) == TRUE
LockPoisonedByAbort(held) == held = {} /\ \A w \in Workers : wstate[w] # "panicked"
CanLock(held) == held = {}

\* JoinHandle::join returns when the thread has ended.
JoinAnyway(s) == TRUE
ThreadFinished(s) == s \in {"exited", "panicked"}

\* `for _ in &mut self.workers`: one Terminate per worker.
ShutdownSendsShort == NumWorkers - 1
ShutdownSends == NumWorkers

\* match message { Message(job) => job.call_box(), Terminate => break }
MatchArmNoBreak(kind) == "run"
MatchArm(kind) == IF kind = "Message" THEN "run" ELSE "break"

NextId == Len(sentLog) + 1

\* -------------------------------------------------------------------- Init
\* State after WorkerPool::new(NumWorkers): the local Arc of new() is gone,
\* every worker closure holds one clone, every worker is about to lock.
PoolInit ==
    /\ chan = <<>>
    /\ sentLog = <<>>
    /\ arc = NumWorkers
    /\ lockHeld = {}
    /\ wstate = [w \in Workers |-> "lock"]
    /\ wmsg = [w \in Workers |-> NoMsg]
    /\ claimLog = <<>>
    /\ ran = [i \in 1..MaxMsgs |-> 0]
    /\ opc = "idle"
    /\ si = 0
    /\ ji = 1
    /\ submitLog = <<>>
    /\ shutdownLog = <<>>

\* State after Server::start: the driver thread runs and owns the Receiver of
\* the control channel, the Server holds its JoinHandle and the Sender.
SrvInit ==
    /\ ctl = <<>>
    /\ ctlSent = <<>>
    /\ ctlRx = TRUE
    /\ ctlRecvLog = <<>>
    /\ dstate = "running"
    /\ handle = "Some"
    /\ hpc = "idle"
    /\ reqLog = <<>>
    /\ joinLog = <<>>

\* What hout holds before a parser has returned.
NoResult == [tag |-> "None"]

\* No parser has been called.
HttpIdle ==
    /\ hin = <<>>
    /\ hop = "none"
    /\ hout = NoResult

Init == PoolInit /\ SrvInit /\ HttpIdle

\* ------------------------------------------------------------- the workers
\* receiver.lock(): the worker takes the guard of the shared Receiver.
Lock(w) ==
    /\ wstate[w] = "lock"
    /\ CanLock(lockHeld)
    /\ lockHeld' = lockHeld \cup {w}
    /\ wstate' = [wstate EXCEPT ![w] = "recv"]
    /\ UNCHANGED <<chan, sentLog, arc, wmsg, claimLog, ran>>
    /\ UNCHANGED <<ownerVars, srvVars, httpVars>>

\* .recv(), first half: blocks while the queue is empty, then reads the
\* message at the front.  The Receiver is a single-consumer end: reading the
\* front and unlinking it are two steps that only the guard makes one.
\* recv returns Err only on an empty queue whose Sender is gone; the Sender
\* goes with the pool, after Drop, and Drop leaves at least one Terminate in
\* the queue for every worker still in its loop, so that arm (and with it a
\* poisoned lock) is never taken and has no action here.
RecvRead(w) ==
    /\ wstate[w] = "recv"
    /\ chan # <<>>
    /\ wmsg' = [wmsg EXCEPT ![w] = Head(chan)]
    /\ claimLog' = Append(claimLog, <<Head(chan).id, w>>)
    /\ wstate' = [wstate EXCEPT ![w] = "unlink"]
    /\ UNCHANGED <<chan, sentLog, arc, lockHeld, ran>>
    /\ UNCHANGED <<ownerVars, srvVars, httpVars>>

RecvUnlinkKeepsGuard(w) ==
    /\ wstate[w] = "unlink"
    /\ chan' = Unlink(chan)
    /\ lockHeld' = lockHeld
    /\ wstate' = [wstate EXCEPT ![w] = MatchArm(wmsg[w].kind)]
    /\ UNCHANGED <<sentLog, arc, wmsg, claimLog, ran>>
    /\ UNCHANGED <<ownerVars, srvVars, httpVars>>

\* .recv(), second half, and the end of the `let message = ...;` statement:
\* the front node is unlinked, the temporary guard is dropped, and the match
\* selects the arm.
RecvUnlink(w) ==
    /\ wstate[w] = "unlink"
    /\ chan' = Unlink(chan)
    /\ lockHeld' = lockHeld \ {w}
    /\ wstate' = [wstate EXCEPT ![w] = MatchArm(wmsg[w].kind)]
    /\ UNCHANGED <<sentLog, arc, wmsg, claimLog, ran>>
    /\ UNCHANGED <<ownerVars, srvVars, httpVars>>

\* Message::Message(job) => job.call_box(), the job returns: loop again.
JobReturn(w) ==
    /\ wstate[w] = "run"
    /\ ran' = [ran EXCEPT ![wmsg[w].id] = @ + 1]
    /\ wmsg' = [wmsg EXCEPT ![w] = NoMsg]
    /\ wstate' = [wstate EXCEPT ![w] = "lock"]
    /\ UNCHANGED <<chan, sentLog, arc, lockHeld, claimLog>>
    /\ UNCHANGED <<ownerVars, srvVars, httpVars>>

\* job.call_box() panics: nothing catches it, the thread unwinds and the
\* closure, with its clone of the Arc, is dropped.
JobAbort(w) ==
    /\ wstate[w] = "run"
    /\ wmsg' = [wmsg EXCEPT ![w] = NoMsg]
    /\ wstate' = [wstate EXCEPT ![w] = "panicked"]
    /\ arc' = ArcDrop(arc)
    /\ UNCHANGED <<chan, sentLog, lockHeld, claimLog, ran>>
    /\ UNCHANGED <<ownerVars, srvVars, httpVars>>

\* Message::Terminate => break: the closure returns and drops its clone.
Break(w) ==
    /\ wstate[w] = "break"
    /\ wmsg' = [wmsg EXCEPT ![w] = NoMsg]
    /\ wstate' = [wstate EXCEPT ![w] = "exited"]
    /\ arc' = ArcDrop(arc)
    /\ UNCHANGED <<chan, sentLog, lockHeld, claimLog, ran>>
    /\ UNCHANGED <<ownerVars, srvVars, httpVars>>

\* --------------------------------------------------------------- the owner
workerVars == <<lockHeld, wstate, wmsg, claimLog, ran>>

ExplicitShutdowns == Len(SelectSeq(shutdownLog, LAMBDA e : ~e.inDrop))

\* send_job, Ok arm.
SendJobOk ==
    /\ opc = "idle"
    /\ Len(submitLog) < MaxJobs
    /\ ReceiverAttached
    /\ chan' = Send(chan, [kind |-> "Message", id |-> NextId])
    /\ sentLog' = Append(sentLog, "Message")
    /\ submitLog' = Append(submitLog, "Ok")
    /\ UNCHANGED <<arc, opc, si, ji, shutdownLog>>
    /\ UNCHANGED <<workerVars, srvVars, httpVars>>

\* send_job, Err arm: the job is dropped with the SendError.
SendJobErr ==
    /\ opc = "idle"
    /\ Len(submitLog) < MaxJobs
    /\ ~ReceiverAttached
    /\ submitLog' = Append(submitLog, "Err")
    /\ UNCHANGED <<chan, sentLog, arc, opc, si, ji, shutdownLog>>
    /\ UNCHANGED <<workerVars, srvVars, httpVars>>

\* The owner calls shutdown().
CallShutdown ==
    /\ opc = "idle"
    /\ ExplicitShutdowns < MaxShutdowns
    /\ opc' = "shutdown"
    /\ si' = 0
    /\ shutdownLog' = Append(shutdownLog,
           [result |-> "Running", first |-> NextId, inDrop |-> FALSE])
    /\ UNCHANGED <<chan, sentLog, arc, ji, submitLog>>
    /\ UNCHANGED <<workerVars, srvVars, httpVars>>

\* The pool goes out of scope: Drop::drop starts with self.shutdown().
CallDrop ==
    /\ opc = "idle"
    /\ opc' = "drop_shutdown"
    /\ si' = 0
    /\ shutdownLog' = Append(shutdownLog,
           [result |-> "Running", first |-> NextId, inDrop |-> TRUE])
    /\ UNCHANGED <<chan, sentLog, arc, ji, submitLog>>
    /\ UNCHANGED <<workerVars, srvVars, httpVars>>

InShutdown == opc \in {"shutdown", "drop_shutdown"}

\* One iteration of the loop of shutdown whose send succeeds; after the last
\* one shutdown returns Ok(()), and Drop goes on to join the workers.
ShutdownSendOk ==
    /\ InShutdown
    /\ ReceiverAttached
    /\ chan' = Send(chan, [kind |-> "Terminate", id |-> NextId])
    /\ sentLog' = Append(sentLog, "Terminate")
    /\ LET last == si + 1 >= ShutdownSends
       IN  /\ si' = si + 1
           /\ shutdownLog' = [shutdownLog EXCEPT ![Len(shutdownLog)] =
                  [@ EXCEPT !.result = IF last THEN "Ok" ELSE "Running"]]
           /\ opc' = IF ~last THEN opc
                     ELSE IF opc = "shutdown" THEN "idle" ELSE "drop_join"
    /\ ji' = 1
    /\ UNCHANGED <<arc, submitLog>>
    /\ UNCHANGED <<workerVars, srvVars, httpVars>>

\* An iteration whose send fails: shutdown returns the Err at once.  In Drop
\* the `if let Ok(_)` then skips the joins and drop returns.
ShutdownSendErr ==
    /\ InShutdown
    /\ ~ReceiverAttached
    /\ shutdownLog' = [shutdownLog EXCEPT ![Len(shutdownLog)] =
           [@ EXCEPT !.result = "Err"]]
    /\ opc' = IF opc = "shutdown" THEN "idle" ELSE "dropped"
    /\ UNCHANGED <<chan, sentLog, arc, si, ji, submitLog>>
    /\ UNCHANGED <<workerVars, srvVars, httpVars>>

\* Drop: thread.join() of worker ji returns Ok.
DropJoinOk ==
    /\ opc = "drop_join"
    /\ ThreadFinished(wstate[ji])
    /\ wstate[ji] # "panicked"
    /\ IF ji = NumWorkers
          THEN opc' = "dropped" /\ ji' = ji
          ELSE opc' = opc /\ ji' = ji + 1
    /\ UNCHANGED <<chan, sentLog, arc, si, submitLog, shutdownLog>>
    /\ UNCHANGED <<workerVars, srvVars, httpVars>>

\* Drop: thread.join() returns the Err of a worker that panicked and the
\* expect panics in turn: drop never returns.
DropJoinPanic ==
    /\ opc = "drop_join"
    /\ ThreadFinished(wstate[ji])
    /\ wstate[ji] = "panicked"
    /\ opc' = "drop_panicked"
    /\ UNCHANGED <<chan, sentLog, arc, si, ji, submitLog, shutdownLog>>
    /\ UNCHANGED <<workerVars, srvVars, httpVars>>

WorkerStep == \E w \in Workers :
    \/ Lock(w)
    \/ RecvRead(w)
    \/ RecvUnlink(w)
    \/ JobReturn(w)
    \/ JobAbort(w)
    \/ Break(w)

Next ==
    \/ WorkerStep
    \/ SendJobOk
    \/ SendJobErr
    \/ CallShutdown
    \/ CallDrop
    \/ ShutdownSendOk
    \/ ShutdownSendErr
    \/ DropJoinOk
    \/ DropJoinPanic

Spec == Init /\ [][Next]_vars

\* The threads are operating-system threads: a worker that can take a step
\* eventually takes it, a job that is running eventually ends, and a
\* shutdown or a drop that has started goes on.  Nothing obliges the owner
\* to submit, to call shutdown or to drop the pool.
LiveSpec ==
    /\ Spec
    /\ \A w \in Workers :
          /\ WF_vars(Lock(w))
          /\ WF_vars(RecvRead(w))
          /\ WF_vars(RecvUnlink(w))
          /\ WF_vars(JobReturn(w))
          /\ WF_vars(Break(w))
    /\ WF_vars(ShutdownSendOk \/ ShutdownSendErr)
    /\ WF_vars(DropJoinOk \/ DropJoinPanic)


\* ------------------------------------------------------------------ Server
\* The control channel of Server::start.  A send fails exactly when the
\* Receiver, which start moves into the driver closure, has been dropped.
CtlAlwaysAccepts == TRUE
CtlAttached == ctlRx

\* Receiver::try_recv takes the signal at the front out of the queue.
CtlRestKeep(c) == c
CtlRest(c) == Tail(c)

\* JoinHandle::join of the driver thread returns when that thread has ended.
JoinDriverAnyway(d) == TRUE
DriverFinished(d) == d \in {"returned", "panicked"}

NextCtlId == Len(ctlSent) + 1
ExplicitRequests == Len(SelectSeq(reqLog, LAMBDA e : ~e.inDrop))
CodesSent == Len(SelectSeq(ctlSent, LAMBDA k : k = "Code"))

\* Server::shutdown, Ok arm: the Shutdown signal is sent, true is returned.
SrvShutdownTrue ==
    /\ hpc = "idle"
    /\ ExplicitRequests < MaxRequests
    /\ CtlAttached
    /\ ctl' = Send(ctl, [kind |-> "Shutdown", id |-> NextCtlId])
    /\ ctlSent' = Append(ctlSent, "Shutdown")
    /\ reqLog' = Append(reqLog, [result |-> TRUE, id |-> NextCtlId,
                                 joined |-> dstate # "running", inDrop |-> FALSE])
    /\ UNCHANGED <<ctlRx, ctlRecvLog, dstate, handle, hpc, joinLog>>
    /\ UNCHANGED <<poolVars, httpVars>>

\* Server::shutdown, Err arm: false is returned.
SrvShutdownFalse ==
    /\ hpc = "idle"
    /\ ExplicitRequests < MaxRequests
    /\ ~CtlAttached
    /\ reqLog' = Append(reqLog, [result |-> FALSE, id |-> 0,
                                 joined |-> dstate # "running", inDrop |-> FALSE])
    /\ UNCHANGED <<ctl, ctlSent, ctlRx, ctlRecvLog, dstate, handle, hpc, joinLog>>
    /\ UNCHANGED <<poolVars, httpVars>>

\* The holder sends Message::Code(n) through the public `sender` field.
SrvSendCode ==
    /\ hpc = "idle"
    /\ CodesSent < MaxCodes
    /\ CtlAttached
    /\ ctl' = Send(ctl, [kind |-> "Code", id |-> NextCtlId])
    /\ ctlSent' = Append(ctlSent, "Code")
    /\ UNCHANGED <<ctlRx, ctlRecvLog, dstate, handle, hpc, reqLog, joinLog>>
    /\ UNCHANGED <<poolVars, httpVars>>

SrvJoinPeek ==
    /\ hpc = "idle"
    /\ handle = "Some"
    /\ handle' = handle
    /\ hpc' = "joining"
    /\ UNCHANGED <<ctl, ctlSent, ctlRx, ctlRecvLog, dstate, reqLog, joinLog>>
    /\ UNCHANGED <<poolVars, httpVars>>

\* Server::join: self.server.take().unwrap() on Some, then JoinHandle::join
\* blocks.
SrvJoinTake ==
    /\ hpc = "idle"
    /\ handle = "Some"
    /\ handle' = "None"
    /\ hpc' = "joining"
    /\ UNCHANGED <<ctl, ctlSent, ctlRx, ctlRecvLog, dstate, reqLog, joinLog>>
    /\ UNCHANGED <<poolVars, httpVars>>

\* Server::join when the JoinHandle was taken before: unwrap panics in the
\* caller.
SrvJoinNone ==
    /\ hpc = "idle"
    /\ handle = "None"
    /\ hpc' = "panicked"
    /\ joinLog' = Append(joinLog, "Abort")
    /\ UNCHANGED <<ctl, ctlSent, ctlRx, ctlRecvLog, dstate, handle, reqLog>>
    /\ UNCHANGED <<poolVars, httpVars>>

\* JoinHandle::join returns Ok(()): the driver closure returned.
SrvJoinOk ==
    /\ hpc = "joining"
    /\ DriverFinished(dstate)
    /\ dstate # "panicked"
    /\ joinLog' = Append(joinLog, "Ok")
    /\ hpc' = "idle"
    /\ UNCHANGED <<ctl, ctlSent, ctlRx, ctlRecvLog, dstate, handle, reqLog>>
    /\ UNCHANGED <<poolVars, httpVars>>

\* JoinHandle::join returns Err(payload): the driver panicked.  Server::join
\* hands the Err to its caller.
SrvJoinErr ==
    /\ hpc = "joining"
    /\ DriverFinished(dstate)
    /\ dstate = "panicked"
    /\ joinLog' = Append(joinLog, "Err")
    /\ hpc' = "idle"
    /\ UNCHANGED <<ctl, ctlSent, ctlRx, ctlRecvLog, dstate, handle, reqLog>>
    /\ UNCHANGED <<poolVars, httpVars>>

\* Drop for Server: self.shutdown(), its result unused; then the fields go,
\* the Sender and the JoinHandle (the driver thread is detached).  The Server
\* is dropped by its holder, also while the holder unwinds from a panic.
SrvDrop ==
    /\ hpc \in {"idle", "panicked"}
    /\ hpc' = "dropped"
    /\ IF CtlAttached
          THEN /\ ctl' = Send(ctl, [kind |-> "Shutdown", id |-> NextCtlId])
               /\ ctlSent' = Append(ctlSent, "Shutdown")
               /\ reqLog' = Append(reqLog, [result |-> TRUE, id |-> NextCtlId,
                                joined |-> dstate # "running", inDrop |-> TRUE])
          ELSE /\ UNCHANGED <<ctl, ctlSent>>
               /\ reqLog' = Append(reqLog, [result |-> FALSE, id |-> 0,
                                joined |-> dstate # "running", inDrop |-> TRUE])
    /\ UNCHANGED <<ctlRx, ctlRecvLog, dstate, handle, joinLog>>
    /\ UNCHANGED <<poolVars, httpVars>>

\* The driver is the closure handed to Server::start: server.rs fixes only
\* that it runs on its own thread and owns the Receiver until it ends.
\* receiver.try_recv() (or recv()) with a signal waiting.
DriverTryRecv ==
    /\ dstate = "running"
    /\ ctl # <<>>
    /\ ctlRecvLog' = Append(ctlRecvLog, Head(ctl).id)
    /\ ctl' = CtlRest(ctl)
    /\ UNCHANGED <<ctlSent, ctlRx, dstate, handle, hpc, reqLog, joinLog>>
    /\ UNCHANGED <<poolVars, httpVars>>

\* The closure returns: the thread ends and the Receiver is dropped.
DriverReturn ==
    /\ dstate = "running"
    /\ dstate' = "returned"
    /\ ctlRx' = FALSE
    /\ UNCHANGED <<ctl, ctlSent, ctlRecvLog, handle, hpc, reqLog, joinLog>>
    /\ UNCHANGED <<poolVars, httpVars>>

\* The closure panics: the thread unwinds and the Receiver is dropped.
DriverPanic ==
    /\ dstate = "running"
    /\ dstate' = "panicked"
    /\ ctlRx' = FALSE
    /\ UNCHANGED <<ctl, ctlSent, ctlRecvLog, handle, hpc, reqLog, joinLog>>
    /\ UNCHANGED <<poolVars, httpVars>>

SrvNext ==
    \/ SrvShutdownTrue
    \/ SrvShutdownFalse
    \/ SrvSendCode
    \/ SrvJoinTake
    \/ SrvJoinNone
    \/ SrvJoinOk
    \/ SrvJoinErr
    \/ SrvDrop
    \/ DriverTryRecv
    \/ DriverReturn
    \/ DriverPanic

ServerSpec == Init /\ [][SrvNext]_vars

\* ------------------------------------------------- the reference driver
\* src/bin/main.rs hands Server::start a closure that owns the listener, the
\* WorkerPool and the Receiver of the control channel.  Its loop accepts a
\* connection when there is one and sends the pool a job for it, then polls
\* the control channel with try_recv; on Message::Shutdown it calls
\* workers.shutdown() and breaks.  When the closure ends, by return or by
\* panic, its parameters are dropped in reverse order: the Receiver first,
\* then the pool, whose Drop shuts down again and joins the workers.  The
\* driver is the owner of the pool, so opc is its position from the call of
\* workers.shutdown() on.
ShutdownReceived ==
    \E i \in 1..Len(ctlRecvLog) : ctlSent[ctlRecvLog[i]] = "Shutdown"

\* send_job(..).expect(..) met an Err, or workers.shutdown() gave the Err
\* that panic!(e) raises.
DriverPanicking ==
    \/ \E i \in 1..Len(submitLog) : submitLog[i] = "Err"
    \/ \E i \in 1..Len(shutdownLog) :
           ~shutdownLog[i].inDrop /\ shutdownLog[i].result = "Err"

\* The closure is inside its loop, neither told to shut down nor panicking.
InLoop ==
    /\ dstate = "running"
    /\ opc = "idle"
    /\ ~ShutdownReceived
    /\ ~DriverPanicking

\* The loop has been left and the parameters are about to be dropped.
LoopOver ==
    /\ dstate = "running"
    /\ opc = "idle"
    /\ \/ DriverPanicking
       \/ \E i \in 1..Len(shutdownLog) :
              ~shutdownLog[i].inDrop /\ shutdownLog[i].result = "Ok"

\* listener.accept() gave a connection and send_job accepted its job.
RefAcceptOk == InLoop /\ SendJobOk

\* listener.accept() gave a connection and send_job returned Err, which
\* expect turns into a panic of the driver: no worker is left.
RefAcceptErr ==
    /\ InLoop
    /\ ~ReceiverAttached
    /\ Len(submitLog) <= MaxJobs
    /\ submitLog' = Append(submitLog, "Err")
    /\ UNCHANGED <<chan, sentLog, arc, opc, si, ji, shutdownLog>>
    /\ UNCHANGED <<workerVars, srvVars, httpVars>>

\* A poll that only ever takes a Code from the control channel.
RefTryRecvCodesOnly ==
    /\ InLoop
    /\ ctl # <<>>
    /\ Head(ctl).kind = "Code"
    /\ DriverTryRecv
\* receiver.try_recv() takes a signal: a Code is dropped and the loop goes
\* on, a Shutdown matches the `if let`.
RefTryRecv == InLoop /\ DriverTryRecv

\* workers.shutdown() after Ok(Message::Shutdown).
RefPoolShutdown ==
    /\ dstate = "running"
    /\ ShutdownReceived
    /\ shutdownLog = <<>>
    /\ CallShutdown

\* break or panic: the Receiver of the control channel is dropped.
RefDropReceiver ==
    /\ LoopOver
    /\ ctlRx
    /\ ctlRx' = FALSE
    /\ UNCHANGED <<ctl, ctlSent, ctlRecvLog, dstate, handle, hpc, reqLog, joinLog>>
    /\ UNCHANGED <<poolVars, httpVars>>

\* Then the WorkerPool is dropped.
RefDropPool == LoopOver /\ ~ctlRx /\ CallDrop

\* Drop for WorkerPool has returned and the closure did not panic: the
\* driver thread ends.
RefReturn ==
    /\ opc = "dropped"
    /\ ~DriverPanicking
    /\ DriverReturn

\* The driver thread ends by panic: the one raised in the loop, once the
\* pool is dropped, or the one of the expect in Drop for WorkerPool.
RefPanic ==
    /\ \/ opc = "dropped" /\ DriverPanicking
       \/ opc = "drop_panicked"
    /\ DriverPanic

\* The thread that holds the Server is main(): it may send Code signals
\* through the public sender, calls srv.shutdown() until it returns true,
\* then srv.join(), and drops the Server when it ends.
MainSendCode == reqLog = <<>> /\ SrvSendCode

\* while !srv.shutdown() {}
MainShutdown ==
    /\ \A i \in 1..Len(reqLog) : ~reqLog[i].result
    /\ (SrvShutdownTrue \/ SrvShutdownFalse)

\* srv.join()
MainJoin ==
    /\ \E i \in 1..Len(reqLog) : reqLog[i].result
    /\ SrvJoinTake

\* main ends, by return or by the panic of expect: srv is dropped.
MainDrop == joinLog # <<>> /\ SrvDrop

HolderStep ==
    \/ MainSendCode
    \/ MainShutdown
    \/ MainJoin
    \/ SrvJoinOk
    \/ SrvJoinErr
    \/ MainDrop

RefNext ==
    \/ WorkerStep
    \/ RefAcceptOk
    \/ RefAcceptErr
    \/ RefTryRecv
    \/ RefPoolShutdown
    \/ ShutdownSendOk
    \/ ShutdownSendErr
    \/ RefDropReceiver
    \/ RefDropPool
    \/ DropJoinOk
    \/ DropJoinPanic
    \/ RefReturn
    \/ RefPanic
    \/ HolderStep

RefSpec == Init /\ [][RefNext]_vars

\* Every thread that can go on does: the workers and the shutdown and drop
\* of the pool as in LiveSpec, the driver's poll of the control channel and
\* its way out of the closure, and a join that can return.  Nothing obliges
\* a connection to arrive or main to call anything.
RefLiveSpec ==
    /\ RefSpec
    /\ \A w \in Workers :
          /\ WF_vars(Lock(w))
          /\ WF_vars(RecvRead(w))
          /\ WF_vars(RecvUnlink(w))
          /\ WF_vars(JobReturn(w))
          /\ WF_vars(Break(w))
    /\ WF_vars(ShutdownSendOk \/ ShutdownSendErr)
    /\ WF_vars(DropJoinOk \/ DropJoinPanic)
    /\ WF_vars(RefTryRecv)
    /\ WF_vars(RefPoolShutdown)
    /\ WF_vars(RefDropReceiver)
    /\ WF_vars(RefDropPool)
    /\ WF_vars(RefReturn \/ RefPanic)
    /\ WF_vars(SrvJoinOk \/ SrvJoinErr)

\* ------------------------------------------------------------ HTTP parsers
\* Text (&str, String) is a sequence of one-character strings, so that
\* splitting, trimming and upper-casing are computed character by character.
\* A Result is a record with a tag; a panic of the call is the tag "Panic".
CRLF == <<"\r", "\n">>
SPACE == <<" ">>
QUOT == <<"\"">>
COLON == <<":">>

\* The characters str::trim removes (White_Space), as far as the inputs have
\* them.
Whitespace == {" ", "\t", "\n", "\r"}

LowerCase == <<"a", "b", "c", "d", "e", "f", "g", "h", "i", "j", "k", "l", "m",
               "n", "o", "p", "q", "r", "s", "t", "u", "v", "w", "x", "y", "z">>
UpperCase == <<"A", "B", "C", "D", "E", "F", "G", "H", "I", "J", "K", "L", "M",
               "N", "O", "P", "Q", "R", "S", "T", "U", "V", "W", "X", "Y", "Z">>
Digits == <<"0", "1", "2", "3", "4", "5", "6", "7", "8", "9">>

\* http/mod.rs: pub static HTTP_METHOD: [&'static str; 1] = ["GET"];
HTTP_METHOD == << <<"G", "E", "T">> >>

StartsWith(s, p) == Len(p) <= Len(s) /\ SubSeq(s, 1, Len(p)) = p
\* Iterator::skip(n) on a sequence.
Skip(s, n) == SubSeq(s, n + 1, Len(s))

\* str::split(sep): the pieces between the non-overlapping matches of sep,
\* found left to right, empty pieces included; one piece more than matches,
\* so never no piece.
RECURSIVE SplitFrom(_, _, _, _)
SplitFrom(s, sep, cur, acc) ==
    IF s = <<>> THEN Append(acc, cur)
    ELSE IF StartsWith(s, sep)
         THEN SplitFrom(Skip(s, Len(sep)), sep, <<>>, Append(acc, cur))
         ELSE SplitFrom(Tail(s), sep, Append(cur, Head(s)), acc)

Split(s, sep) == SplitFrom(s, sep, <<>>, <<>>)

RECURSIVE TrimStart(_)
TrimStart(s) ==
    IF s # <<>> /\ Head(s) \in Whitespace THEN TrimStart(Tail(s)) ELSE s

RECURSIVE TrimEnd(_)
TrimEnd(s) ==
    IF s # <<>> /\ s[Len(s)] \in Whitespace
    THEN TrimEnd(SubSeq(s, 1, Len(s) - 1))
    ELSE s

\* str::trim
Trim(s) == TrimEnd(TrimStart(s))

UpperChar(c) ==
    IF \E i \in 1..Len(LowerCase) : LowerCase[i] = c
    THEN UpperCase[CHOOSE i \in 1..Len(LowerCase) : LowerCase[i] = c]
    ELSE c

\* str::to_uppercase
ToUpper(s) == IF s = <<>> THEN <<>> ELSE [i \in 1..Len(s) |-> UpperChar(s[i])]

\* Option<T>
None == [some |-> FALSE]
Some(x) == [some |-> TRUE, val |-> x]

\* A thread of control that panicked inside the call (index out of bounds).
Panic == [tag |-> "Panic"]
\* Err(format!(...)): which message, and the text put into it.
Err(kind, text) == [tag |-> "Err", kind |-> kind, text |-> text]
Failed(r) == r.tag \in {"Err", "Panic"}

\* ---- str::parse::<u32>
\* A u32 is kept as its decimal numeral without leading zeros: the value, in
\* a form that holds every u32.
U32Max == <<"4", "2", "9", "4", "9", "6", "7", "2", "9", "5">>

IsDigit(c) == \E i \in 1..Len(Digits) : Digits[i] = c
DigitVal(c) == (CHOOSE i \in 1..Len(Digits) : Digits[i] = c) - 1

RECURSIVE Canonical(_)
Canonical(ds) ==
    IF Len(ds) > 1 /\ Head(ds) = "0" THEN Canonical(Tail(ds)) ELSE ds

\* a > b for two numerals of the same length without leading zeros
RECURSIVE NumeralGreater(_, _)
NumeralGreater(a, b) ==
    IF a = <<>> THEN FALSE
    ELSE IF Head(a) # Head(b) THEN DigitVal(Head(a)) > DigitVal(Head(b))
    ELSE NumeralGreater(Tail(a), Tail(b))

Overflows(n) ==
    \/ Len(n) > Len(U32Max)
    \/ Len(n) = Len(U32Max) /\ NumeralGreater(n, U32Max)

\* One or more digits, no sign accepted.
ParseU32NoSign(s) ==
    IF s = <<>> \/ \E i \in 1..Len(s) : ~IsDigit(s[i])
    THEN [ok |-> FALSE]
    ELSE IF Overflows(Canonical(s))
         THEN [ok |-> FALSE]
         ELSE [ok |-> TRUE, val |-> Canonical(s)]
\* An optional "+", then one or more digits, the value at most u32::MAX.
ParseU32(s) ==
    LET ds == IF s # <<>> /\ Head(s) = "+" THEN Tail(s) ELSE s
    IN  IF ds = <<>> \/ \E i \in 1..Len(ds) : ~IsDigit(ds[i])
        THEN [ok |-> FALSE]
        ELSE IF Overflows(Canonical(ds))
             THEN [ok |-> FALSE]
             ELSE [ok |-> TRUE, val |-> Canonical(ds)]

\* ---- StartLine::from (http/start_line.rs)
\* The line split on spaces, whatever quotes it has.
StartLinePartsBySpace(msg) == Split(Trim(msg), SPACE)
\* let parts: the line trimmed and split on quotes when that gives three
\* parts, on spaces otherwise.
StartLineParts(msg) ==
    LET quot_split == Split(Trim(msg), QUOT)
    IN  IF Len(quot_split) = 3 THEN quot_split ELSE Split(Trim(msg), SPACE)

\* get_request!: parts[1] and parts[2] are indexed without a length check,
\* so fewer than three parts is an index-out-of-bounds panic.
GetRequest(parts, first_part) ==
    IF Len(parts) < 3 THEN Panic
    ELSE [tag |-> "RequestLine",
          method |-> HTTP_METHOD[CHOOSE i \in 1..Len(HTTP_METHOD) :
                                     HTTP_METHOD[i] = first_part],
          target |-> Trim(parts[2]),
          version |-> ToUpper(Trim(parts[3]))]

\* The fold of get_status!: every remaining part with a space before it.
RECURSIVE FoldReason(_, _)
FoldReason(res, ps) ==
    IF ps = <<>> THEN res
    ELSE FoldReason(res \o SPACE \o Head(ps), Tail(ps))

\* get_status!: parts[1] is indexed without a length check.
GetStatus(parts, first_part) ==
    IF Len(parts) < 2 THEN Panic
    ELSE LET code == ParseU32(Trim(parts[2]))
             reason == Trim(FoldReason(<<>>, Skip(parts, 2)))
         IN  IF ~code.ok THEN Err("BadCode", parts[2])
             ELSE [tag |-> "StatusLine",
                   version |-> first_part,
                   code |-> code.val,
                   reason |-> IF reason = <<>> THEN None ELSE Some(reason)]

StartLineFrom(msg) ==
    LET parts == StartLineParts(msg)
        first_part == ToUpper(Trim(parts[1]))
    IN  IF \E i \in 1..Len(HTTP_METHOD) : HTTP_METHOD[i] = first_part
        THEN GetRequest(parts, first_part)
        ELSE GetStatus(parts, first_part)

\* ---- HeaderField::from (http/header_field.rs)
\* The fold of the value: every part after the second with a colon before it.
\* Only the part between the first and the second colon.
ValueToSecondColon(res, ps) == res
RECURSIVE FoldValue(_, _)
FoldValue(res, ps) ==
    IF ps = <<>> THEN res
    ELSE FoldValue(res \o COLON \o Head(ps), Tail(ps))

HeaderFieldFrom(msg) ==
    LET parts == Split(msg, COLON)
    IN  IF Len(parts) >= 2
        THEN [tag |-> "HeaderField",
              name |-> Trim(parts[1]),
              value |-> Trim(FoldValue(parts[2], Skip(parts, 2)))]
        ELSE Err("BadHeaderField", msg)

\* ---- MessageHTTP::from (http/message.rs)
\* take_while(|s| *s != ""): the lines before the first empty one.
TakeToEnd(ls) == ls
RECURSIVE TakeWhileNonEmpty(_)
TakeWhileNonEmpty(ls) ==
    IF ls = <<>> \/ Head(ls) = <<>> THEN <<>>
    ELSE <<Head(ls)>> \o TakeWhileNonEmpty(Tail(ls))

\* The fold of the body: every further line with a CR-LF before it.
RECURSIVE FoldBody(_, _)
FoldBody(res, ls) ==
    IF ls = <<>> THEN res
    ELSE FoldBody(res \o CRLF \o Head(ls), Tail(ls))

\* The loop over the header fields: the first Err is returned, at index 0
\* when there is none.
FirstErr(fields) ==
    IF \E i \in 1..Len(fields) : fields[i].tag = "Err"
    THEN CHOOSE i \in 1..Len(fields) :
             /\ fields[i].tag = "Err"
             /\ \A j \in 1..(i - 1) : fields[j].tag # "Err"
    ELSE 0

MessageFrom(msg) ==
    LET lines == Split(msg, CRLF)
    IN  IF lines = <<>> THEN Err("NoStartLine", msg)
        ELSE
        LET start_line == StartLineFrom(Head(lines))
            rest == Tail(lines)
            fieldLines == TakeWhileNonEmpty(rest)
            fields == [i \in 1..Len(fieldLines) |-> HeaderFieldFrom(fieldLines[i])]
            bad == FirstErr(fields)
            after == Skip(rest, Len(fieldLines) + 1)
            init_string == IF after = <<>> THEN <<>> ELSE Head(after)
            message_body == IF init_string # <<>>
                            THEN FoldBody(init_string, Tail(after))
                            ELSE init_string
        IN  IF Failed(start_line) THEN start_line
            ELSE IF bad # 0 THEN fields[bad]
            ELSE [tag |-> "MessageHTTP",
                  start_line |-> start_line,
                  header_fields |-> IF fieldLines = <<>> THEN <<>> ELSE fields,
                  message_body |-> message_body]

\* ---- the texts handed to the parsers
\* A line is up to MaxTokens tokens with one separator between neighbours;
\* the empty token gives leading, trailing and doubled separators.
TokenChoices ==
    { <<>>,
      <<"G", "E", "T">>,
      <<"g", "e", "t">>,
      <<"h">>,
      <<"0", "1">>,
      <<"x">>,
      <<"a", " ", "b">> }
SepChoices == {SPACE, QUOT, COLON}

RECURSIVE LinesOf(_)
LinesOf(n) ==
    IF n = 1 THEN TokenChoices
    ELSE {l \o s \o t : l \in LinesOf(n - 1), s \in SepChoices, t \in TokenChoices}

\* The lines of at most k tokens.
LineInputs(k) == UNION {LinesOf(n) : n \in 1..k}

\* A message is up to MaxLines lines with CR-LF between neighbours: start
\* lines, header lines, empty and blank lines, body lines.
LineChoices ==
    { <<>>,
      <<"h", " ", "0", "1">>,
      <<"x", ":", "x">>,
      <<"x", ":", " ", "h">>,
      <<"x">>,
      <<" ">> }

RECURSIVE MessagesOf(_)
MessagesOf(n) ==
    IF n = 1 THEN LineChoices
    ELSE {m \o CRLF \o l : m \in MessagesOf(n - 1), l \in LineChoices}

\* The messages of at most k lines.
MessageInputs(k) == UNION {MessagesOf(n) : n \in 1..k}

\* Lines at the edges of str::parse::<u32> (a sign, the largest u32 and its
\* successor), the quoted request line of test_request_line, and request
\* lines whose two quotes enclose nothing.
EdgeLines ==
    { <<"h", " ", "+", "1">>,
      <<"h", " ", "+", "1", " ", "x">>,
      <<"h", " ", "+">>,
      <<"h", " ", "-", "1">>,
      <<"h", " ", "4", "2", "9", "4", "9", "6", "7", "2", "9", "5">>,
      <<"h", " ", "4", "2", "9", "4", "9", "6", "7", "2", "9", "6">>,
      <<"h", " ", "0", "4", "2", "9", "4", "9", "6", "7", "2", "9", "5", " ", "x">>,
      <<"G", "E", "T", " ", "\"", "a", " ", "b", "\"", " ", "h">>,
      <<"G", "E", "T", " ", "\"", "\"", " ", "h">>,
      <<"G", "E", "T", " ", "x", " ", "\"", "\"">> }

Inputs(tokens, lines) ==
    LineInputs(tokens) \cup MessageInputs(lines) \cup EdgeLines

\* One call of one parser on one text.
ParseInit ==
    /\ PoolInit
    /\ SrvInit
    /\ hin \in Inputs(MaxTokens, MaxLines)
    /\ hop = "none"
    /\ hout = NoResult

ParseStartLine ==
    /\ hop = "none"
    /\ hop' = "StartLine::from"
    /\ hout' = StartLineFrom(hin)
    /\ UNCHANGED <<hin, poolVars, srvVars>>

ParseHeaderField ==
    /\ hop = "none"
    /\ hop' = "HeaderField::from"
    /\ hout' = HeaderFieldFrom(hin)
    /\ UNCHANGED <<hin, poolVars, srvVars>>

ParseMessage ==
    /\ hop = "none"
    /\ hop' = "MessageHTTP::from"
    /\ hout' = MessageFrom(hin)
    /\ UNCHANGED <<hin, poolVars, srvVars>>

ParseNext ==
    \/ ParseStartLine
    \/ ParseHeaderField
    \/ ParseMessage

ParseSpec == ParseInit /\ [][ParseNext]_vars

\* ------------------------------------------------------- shared vocabulary
WorkerGone(w) == wstate[w] \in {"exited", "panicked"}
AllWorkersGone == \A w \in Workers : WorkerGone(w)
NoJobAborted == \A w \in Workers : wstate[w] # "panicked"

IsJob(id) == sentLog[id] = "Message"
IsSignal(id) == sentLog[id] = "Terminate"

\* Indices of the dequeues of worker w, and the signals among them.
ClaimsOf(w) == {i \in DOMAIN claimLog : claimLog[i][2] = w}
TermTaken(w) == Cardinality({i \in ClaimsOf(w) : IsSignal(claimLog[i][1])})
ClaimedIds == {claimLog[i][1] : i \in DOMAIN claimLog}
ChanIds == {chan[i].id : i \in DOMAIN chan}

\* The termination signals the channel accepted from the k-th shutdown call:
\* the owner is one thread, so they are the signals sent between the start
\* of that call and the start of the next.
SignalsOf(k) ==
    {id \in DOMAIN sentLog :
        /\ IsSignal(id)
        /\ id >= shutdownLog[k].first
        /\ (k < Len(shutdownLog) => id < shutdownLog[k + 1].first)}

ShutdownOk(k) == shutdownLog[k].result = "Ok"
SomeShutdownOk == \E k \in DOMAIN shutdownLog : ShutdownOk(k)

\* ------------------------------------------------------------------ claims

\* C1: when the first shutdown() call of the pool has returned Ok, teardown
\* has returned and no job aborted, every job accepted before that call has
\* been executed exactly once; and no job is ever executed twice.  (A job
\* accepted after the first shutdown() is the case of C11, not of C1.)
C1_JobsBeforeShutdownRunExactlyOnce ==
    /\ \A id \in DOMAIN sentLog : ran[id] <= 1
    /\ (opc = "dropped" /\ NoJobAborted /\ shutdownLog # <<>> /\ ShutdownOk(1)) =>
           \A id \in 1..(shutdownLog[1].first - 1) : IsJob(id) => ran[id] = 1

C1_Witness ==
    /\ opc = "dropped"
    /\ NoJobAborted
    /\ ShutdownOk(1)
    /\ shutdownLog[1].first > 2
    /\ IsJob(1) /\ IsJob(2)
    /\ ran[1] = 1 /\ ran[2] = 1
    /\ \E i, j \in DOMAIN claimLog :
          /\ claimLog[i][1] = 1 /\ claimLog[j][1] = 2
          /\ claimLog[i][2] # claimLog[j][2]

\* C2: every message of the job channel, job or termination signal, is
\* dequeued by at most one worker, and at most once.
C2_DequeueMutuallyExclusive ==
    \A i, j \in DOMAIN claimLog :
        i # j => claimLog[i][1] # claimLog[j][1]

C2_Witness ==
    \E i, j \in DOMAIN claimLog :
        /\ claimLog[i][2] # claimLog[j][2]
        /\ IsJob(claimLog[i][1]) /\ IsJob(claimLog[j][1])
        /\ wstate[claimLog[i][2]] = "run" /\ wstate[claimLog[j][2]] = "recv"

\* C3: jobs of the one producer are dequeued in the order of submission: when
\* job B is dequeued, every job A submitted before B was dequeued earlier.
C3_SingleProducerFifo ==
    \A j \in DOMAIN claimLog :
        \A a \in 1..(claimLog[j][1] - 1) :
            (IsJob(a) /\ IsJob(claimLog[j][1])) =>
                \E i \in 1..(j - 1) : claimLog[i][1] = a

C3_Witness ==
    \E i, j \in DOMAIN claimLog :
        /\ i < j
        /\ IsJob(claimLog[i][1]) /\ IsJob(claimLog[j][1])
        /\ claimLog[i][1] < claimLog[j][1]
        /\ claimLog[i][2] # claimLog[j][2]

\* C4: a shutdown() call that returns Ok has put exactly NumWorkers
\* termination signals on the channel, each behind every job submitted
\* before the call.
C4_ShutdownSendsOnePerWorker ==
    \A k \in DOMAIN shutdownLog : ShutdownOk(k) =>
        /\ Cardinality(SignalsOf(k)) = NumWorkers
        /\ \A p, q \in DOMAIN chan :
               (/\ chan[p].kind = "Message"
                /\ chan[p].id < shutdownLog[k].first
                /\ chan[q].id \in SignalsOf(k)) => p < q

C4_Witness ==
    \E k \in DOMAIN shutdownLog :
        /\ ShutdownOk(k)
        /\ Cardinality(SignalsOf(k)) = NumWorkers
        /\ SignalsOf(k) \subseteq ChanIds
        /\ \E p \in DOMAIN chan :
              chan[p].kind = "Message" /\ chan[p].id < shutdownLog[k].first

\* C5: under fair scheduling, once a shutdown() call has returned Ok every
\* worker eventually ends; no worker ever consumes more than one termination
\* signal, a worker that left its loop consumed exactly one, and when no job
\* aborted exactly NumWorkers signals have been consumed in all.
C5_TotalTermTaken == Cardinality({i \in DOMAIN claimLog : IsSignal(claimLog[i][1])})

C5_EveryWorkerExitsOnOneSignal ==
    /\ SomeShutdownOk ~> AllWorkersGone
    /\ [](\A w \in Workers :
            /\ TermTaken(w) <= 1
            /\ (wstate[w] = "exited" => TermTaken(w) = 1))
    /\ []((AllWorkersGone /\ NoJobAborted) => C5_TotalTermTaken = NumWorkers)

C5_Witness ==
    /\ AllWorkersGone
    /\ NoJobAborted
    /\ Cardinality({k \in DOMAIN shutdownLog : ShutdownOk(k)}) = 1
    /\ C5_TotalTermTaken = NumWorkers
    /\ \E id \in DOMAIN sentLog : IsJob(id) /\ ran[id] = 1

\* C6: when teardown (Drop) has returned, every worker has ended, also when
\* the shutdown made by the teardown returned Err.
C6_TeardownWaitsForWorkers ==
    opc = "dropped" => AllWorkersGone

C6_Witness ==
    /\ opc = "dropped"
    /\ shutdownLog[Len(shutdownLog)].inDrop
    /\ shutdownLog[Len(shutdownLog)].result = "Err"
    /\ AllWorkersGone

\* C7: a teardown that follows an explicit shutdown() which returned Ok sends
\* no further termination signal.
C7_TeardownSendsNothingAfterShutdown ==
    \A k \in DOMAIN shutdownLog :
        (/\ shutdownLog[k].inDrop
         /\ \E j \in 1..(k - 1) : ~shutdownLog[j].inDrop /\ ShutdownOk(j))
        => SignalsOf(k) = {}

\* C8, as claimed: every second (or later) shutdown() call that has returned
\* has sent a further NumWorkers termination signals.
C8_SecondShutdownAlwaysSendsN ==
    \A k \in DOMAIN shutdownLog :
        (k >= 2 /\ shutdownLog[k].result # "Running") =>
            Cardinality(SignalsOf(k)) = NumWorkers

\* C8, amended: a second (or later) shutdown() call that returns Ok has sent
\* a further NumWorkers termination signals; whatever such a call sent, Ok or
\* not, is never dequeued by any worker and stays in the channel.
C8_SurplusSignalsNeverConsumed ==
    \A k \in DOMAIN shutdownLog : k >= 2 =>
        /\ ShutdownOk(k) => Cardinality(SignalsOf(k)) = NumWorkers
        /\ SignalsOf(k) \cap ClaimedIds = {}
        /\ SignalsOf(k) \subseteq ChanIds

C8_Witness ==
    /\ Len(shutdownLog) >= 2
    /\ ShutdownOk(1) /\ ShutdownOk(2)
    /\ ~shutdownLog[1].inDrop /\ ~shutdownLog[2].inDrop
    /\ Cardinality(SignalsOf(2)) = NumWorkers
    /\ AllWorkersGone
    /\ SignalsOf(2) \subseteq ChanIds

\* C9: a worker that has dequeued a termination signal dequeues nothing after
\* it and runs no job: the signal is its last dequeue, and the worker is
\* leaving its loop or has left it.
C9_NothingAfterTerminate ==
    \A w \in Workers : TermTaken(w) >= 1 =>
        /\ \A i, j \in ClaimsOf(w) : i < j => ~IsSignal(claimLog[i][1])
        /\ wstate[w] \in {"unlink", "break", "exited"}
        /\ wstate[w] = "unlink" => wmsg[w].kind = "Terminate"

C9_Witness ==
    \E w \in Workers :
        /\ wstate[w] = "exited"
        /\ \E v \in Workers : wstate[v] = "run"
        /\ \E i \in ClaimsOf(w) :
              /\ IsSignal(claimLog[i][1])
              /\ \E id \in ChanIds : id > claimLog[i][1] /\ IsJob(id)

\* C10: a send_job call returns Err exactly when every worker has ended; it
\* then leaves the channel as it was.  While a worker is alive it returns Ok
\* and the job is the new last message of the channel.  One call is one send.
C10_SubmitFailsOnlyWithoutWorkers ==
    [][Len(submitLog') = Len(submitLog) + 1 =>
          IF AllWorkersGone
             THEN /\ submitLog'[Len(submitLog')] = "Err"
                  /\ chan' = chan
                  /\ sentLog' = sentLog
             ELSE /\ submitLog'[Len(submitLog')] = "Ok"
                  /\ chan' = Append(chan, [kind |-> "Message", id |-> Len(sentLog) + 1])
                  /\ sentLog' = Append(sentLog, "Message")]_vars

C10_Witness ==
    /\ Len(submitLog) >= 2
    /\ submitLog[1] = "Ok"
    /\ submitLog[Len(submitLog)] = "Err"
    /\ \E w \in Workers : wstate[w] = "exited"

\* C11: a job the channel accepted after the signals of a shutdown() that
\* returned Ok is never dequeued and never run: it stays in the channel, also
\* in the final state where every worker has ended.  (send_job and shutdown
\* take &mut self, so a submit is before or after a shutdown, never inside.)
C11_JobAfterShutdownNeverRuns ==
    (shutdownLog # <<>> /\ ShutdownOk(1)) =>
        \A id \in DOMAIN sentLog :
            (IsJob(id) /\ id > shutdownLog[1].first) =>
                /\ id \notin ClaimedIds
                /\ ran[id] = 0
                /\ id \in ChanIds

C11_Witness ==
    /\ AllWorkersGone
    /\ NoJobAborted
    /\ opc = "dropped"
    /\ ShutdownOk(1)
    /\ \E id \in ChanIds :
          /\ IsJob(id)
          /\ id > shutdownLog[1].first
          /\ ran[id] = 0
          /\ \E n \in DOMAIN submitLog : submitLog[n] = "Ok"

\* ---------------------------------------------------- claims on the Server
LastReq == reqLog[Len(reqLog)]
ShutdownSignal == [kind |-> "Shutdown", id |-> Len(ctlSent) + 1]

C13_TrueOnlyIfDriverJoined ==
    \A k \in DOMAIN reqLog :
        (~reqLog[k].inDrop /\ reqLog[k].result = TRUE) => reqLog[k].joined

\* C14: a join() that returned did so after the driver thread ended; it gave
\* Err exactly when the driver panicked, and the caller goes on: only a join
\* on a Server whose JoinHandle is gone aborts the caller.
C14_JoinWaitsAndReportsPanic ==
    /\ \A k \in DOMAIN joinLog : joinLog[k] \in {"Ok", "Err"} =>
          /\ dstate # "running"
          /\ (joinLog[k] = "Err" <=> dstate = "panicked")
    /\ hpc = "joining" => handle = "None"
    /\ hpc = "panicked" => \E k \in DOMAIN joinLog : joinLog[k] = "Abort"

C14_Witness ==
    /\ joinLog = <<"Err">>
    /\ dstate = "panicked"
    /\ hpc = "idle"

\* C15: the driver receives every control signal at most once and in the
\* order of sending; what it received was sent, and a request that returned
\* true is received at most once.
C15_ControlDeliveredOnceInOrder ==
    /\ \A i, j \in DOMAIN ctlRecvLog : i < j => ctlRecvLog[i] < ctlRecvLog[j]
    /\ \A i \in DOMAIN ctlRecvLog : ctlRecvLog[i] \in DOMAIN ctlSent
    /\ \A k \in DOMAIN reqLog : reqLog[k].result = TRUE =>
          Cardinality({i \in DOMAIN ctlRecvLog : ctlRecvLog[i] = reqLog[k].id}) <= 1

C15_Witness ==
    /\ Len(ctlRecvLog) >= 3
    /\ ctlSent[ctlRecvLog[1]] = "Shutdown"
    /\ ctlSent[ctlRecvLog[2]] = "Code"
    /\ ctlSent[ctlRecvLog[3]] = "Shutdown"
    /\ \A k \in {1, 2} : ~reqLog[k].inDrop /\ reqLog[k].result = TRUE

\* C16: dropping a Server on which Server::shutdown was never called sends
\* one Shutdown signal when the Receiver exists and changes nothing on the
\* channel when it is gone; the drop can always complete and leaves the
\* driver thread as it is.
C16_DropRequestsShutdown ==
    /\ [][(hpc # "dropped" /\ hpc' = "dropped" /\ ExplicitRequests = 0) =>
             /\ IF ctlRx
                   THEN /\ ctl' = Append(ctl, ShutdownSignal)
                        /\ ctlSent' = Append(ctlSent, "Shutdown")
                   ELSE /\ ctl' = ctl
                        /\ ctlSent' = ctlSent
             /\ dstate' = dstate]_vars
    /\ [](hpc = "idle" => ENABLED SrvDrop)

C16_Witness ==
    /\ hpc = "dropped"
    /\ Len(reqLog) = 1
    /\ reqLog[1].inDrop /\ reqLog[1].result = TRUE
    /\ dstate = "running"
    /\ ctl = <<[kind |-> "Shutdown", id |-> 1]>>

\* ------------------------------------------------- claims on the parsers
\* The text after the first occurrence of pat, empty when there is none.
RECURSIVE TextAfter(_, _)
TextAfter(s, pat) ==
    IF s = <<>> THEN <<>>
    ELSE IF StartsWith(s, pat) THEN Skip(s, Len(pat))
    ELSE TextAfter(Tail(s), pat)

\* C17: the body of a parsed message is exactly the text after the first
\* empty line (the first CR-LF CR-LF of the input), whatever that text starts
\* with or contains, and is empty when there is no such line or nothing
\* follows it.
C17_BodyIsTextAfterFirstEmptyLine ==
    (hop = "MessageHTTP::from" /\ hout.tag = "MessageHTTP")
        => hout.message_body = TextAfter(hin, CRLF \o CRLF)

\* The lines of msg between its start line and its first empty line.
HeaderLinesOf(msg) ==
    LET lines == Split(msg, CRLF)
        empties == {k \in 2..Len(lines) : lines[k] = <<>>}
        last == IF empties = {} THEN Len(lines)
                ELSE (CHOOSE k \in empties : \A j \in empties : k <= j) - 1
    IN  SubSeq(lines, 2, last)

\* C18: when the start line parses, the header fields of the message are the
\* lines between the start line and the first empty line, each as
\* HeaderField::from gives it, in input order and with repeated names kept;
\* when one of those lines fails, the call returns the error of the first
\* that fails and no message.
C18_HeaderFieldsAreLinesToFirstEmpty ==
    LET hdr == HeaderLinesOf(hin)
        failing == {i \in 1..Len(hdr) : HeaderFieldFrom(hdr[i]).tag = "Err"}
    IN  (hop = "MessageHTTP::from"
         /\ ~Failed(StartLineFrom(Head(Split(hin, CRLF)))))
            => IF failing = {}
               THEN /\ hout.tag = "MessageHTTP"
                    /\ Len(hout.header_fields) = Len(hdr)
                    /\ \A i \in 1..Len(hdr) :
                           hout.header_fields[i] = HeaderFieldFrom(hdr[i])
               ELSE hout = HeaderFieldFrom(
                        hdr[CHOOSE i \in failing : \A j \in failing : i <= j])

\* A message with two header fields of the same name and different values,
\* kept in input order, and a body.
C18_Witness ==
    /\ hop = "MessageHTTP::from"
    /\ hout.tag = "MessageHTTP"
    /\ Len(hout.header_fields) = 2
    /\ hout.header_fields[1].name = hout.header_fields[2].name
    /\ hout.header_fields[1].value = <<"x">>
    /\ hout.header_fields[2].value = <<"h">>
    /\ hout.message_body # <<>>

\* C19: StartLine::from returns a StartLine or an Err for every line, the
\* empty line and one-token lines included; it never panics.
C19_StartLineFromIsTotal ==
    hop = "StartLine::from" => hout.tag \in {"RequestLine", "StatusLine", "Err"}

\* A token: not empty, without a space or a quote.
IsToken(t) == t # <<>> /\ \A i \in 1..Len(t) : t[i] \notin {" ", "\""}
IsMethod(t) == \E i \in 1..Len(HTTP_METHOD) : HTTP_METHOD[i] = ToUpper(t)

\* C20: a line of a method keyword, one space and a target, with no version,
\* parses to a RequestLine of the canonical method and that target.
C20_TwoTokenRequestLineAccepted ==
    \A m \in TokenChoices, t \in TokenChoices :
        (/\ IsMethod(m)
         /\ IsToken(t)
         /\ hop = "StartLine::from"
         /\ hin = m \o SPACE \o t)
            => /\ hout.tag = "RequestLine"
               /\ hout.method = ToUpper(m)
               /\ hout.target = t

\* The text before the first occurrence of pat, all of it when there is none.
RECURSIVE TextBefore(_, _)
TextBefore(s, pat) ==
    IF s = <<>> \/ StartsWith(s, pat) THEN <<>>
    ELSE <<Head(s)>> \o TextBefore(Tail(s), pat)

HasColon(s) == \E i \in 1..Len(s) : s[i] = ":"

\* C21: HeaderField::from splits the line at its first colon only: the name
\* is the trimmed text before it, the value the trimmed text after it with
\* every later colon kept in place; it fails with "Bad Header Field" exactly
\* when the line has no colon.
C21_HeaderFieldSplitsAtFirstColon ==
    hop = "HeaderField::from"
        => IF HasColon(hin)
           THEN /\ hout.tag = "HeaderField"
                /\ hout.name = Trim(TextBefore(hin, COLON))
                /\ hout.value = Trim(TextAfter(hin, COLON))
           ELSE hout = Err("BadHeaderField", hin)

\* A line with two colons and a space after the first: the value has lost
\* the space and kept the second colon.
C21_Witness ==
    /\ hop = "HeaderField::from"
    /\ hout.tag = "HeaderField"
    /\ HasColon(hout.value)
    /\ Len(hout.value) < Len(TextAfter(hin, COLON))
    /\ hout.name # <<>>

\* The texts of ps with sep between neighbours.
RECURSIVE JoinWith(_, _)
JoinWith(ps, sep) ==
    IF ps = <<>> THEN <<>>
    ELSE IF Len(ps) = 1 THEN Head(ps)
    ELSE Head(ps) \o sep \o JoinWith(Tail(ps), sep)

\* The reason of a status line: the tokens after the second joined by single
\* spaces and trimmed, absent when that is empty.
ReasonOf(parts) ==
    LET text == Trim(JoinWith(Skip(parts, 2), SPACE))
    IN  IF text = <<>> THEN None ELSE Some(text)

\* One or more decimal digits.
IsUnsignedDecimal(t) == t # <<>> /\ \A i \in 1..Len(t) : IsDigit(t[i])
\* An optional "+", then one or more decimal digits.
Unsigned(t) == IF t # <<>> /\ Head(t) = "+" THEN Tail(t) ELSE t
\* A text str::parse::<u32> reads: the digits' value is at most u32::MAX.
IsU32Text(t) ==
    /\ IsUnsignedDecimal(Unsigned(t))
    /\ ~Overflows(Canonical(Unsigned(t)))

\* C22 (as claimed): a line of two or more tokens whose first token is no
\* method keyword parses to a StatusLine of the uppercased first token, the
\* second token read as an unsigned decimal (leading zeros allowed) and the
\* remaining tokens as reason, whenever the second token is an unsigned
\* decimal, and fails with "Bad code" whenever it is not.
C22_StatusLineFromUnsignedDecimal ==
    LET parts == StartLineParts(hin)
    IN  (hop = "StartLine::from"
         /\ Len(parts) >= 2
         /\ ~IsMethod(Trim(parts[1])))
            => IF IsUnsignedDecimal(Trim(parts[2]))
               THEN hout = [tag |-> "StatusLine",
                            version |-> ToUpper(Trim(parts[1])),
                            code |-> Canonical(Trim(parts[2])),
                            reason |-> ReasonOf(parts)]
               ELSE hout.tag = "Err" /\ hout.kind = "BadCode"

\* C22 (amended): the same, with the second token read as str::parse::<u32>
\* reads it: an optional "+" and one or more digits of a value of at most
\* 4294967295 give the code; every other second token, a larger unsigned
\* decimal included, fails with "Bad code" and carries that token.
C22_StatusLineFromU32Text ==
    LET parts == StartLineParts(hin)
    IN  (hop = "StartLine::from"
         /\ Len(parts) >= 2
         /\ ~IsMethod(Trim(parts[1])))
            => IF IsU32Text(Trim(parts[2]))
               THEN hout = [tag |-> "StatusLine",
                            version |-> ToUpper(Trim(parts[1])),
                            code |-> Canonical(Unsigned(Trim(parts[2]))),
                            reason |-> ReasonOf(parts)]
               ELSE hout = Err("BadCode", parts[2])

\* A status line with a signed code and a reason has been accepted.
C22_Witness ==
    /\ hop = "StartLine::from"
    /\ hin = <<"h", " ", "+", "1", " ", "x">>
    /\ hout = [tag |-> "StatusLine", version |-> <<"H">>, code |-> <<"1">>,
               reason |-> Some(<<"x">>)]

\* How many characters of s are quotes.
NumQuotes(s) == Cardinality({i \in 1..Len(s) : s[i] = "\""})

\* The three segments two quotes divide a text into.
QuoteSegments(t) ==
    <<TextBefore(t, QUOT),
      TextBefore(TextAfter(t, QUOT), QUOT),
      TextAfter(TextAfter(t, QUOT), QUOT)>>

\* The parts of a line as claimed: split on quotes only when the line has
\* exactly two quotes and none of the three segments is empty.
ClaimedParts(msg) ==
    LET t == Trim(msg)
    IN  IF NumQuotes(t) = 2 /\ \A i \in 1..3 : QuoteSegments(t)[i] # <<>>
        THEN QuoteSegments(t)
        ELSE Split(t, SPACE)

\* The parts of a line as amended: split on quotes whenever the line has
\* exactly two quotes.
TwoQuoteParts(msg) ==
    LET t == Trim(msg)
    IN  IF NumQuotes(t) = 2 THEN QuoteSegments(t) ELSE Split(t, SPACE)

\* C23 (as claimed): a line of three parts whose first part is a method
\* keyword in any case parses to a RequestLine of the canonical keyword, the
\* second part (trimmed, its case and inner spaces kept) and the uppercased
\* third part, the parts being the quote segments only when there are
\* exactly two quotes and three non-empty segments, the space-separated
\* tokens otherwise.
C23_RequestLineFromNonEmptyQuoteSplit ==
    LET parts == ClaimedParts(hin)
    IN  (hop = "StartLine::from"
         /\ Len(parts) = 3
         /\ IsMethod(Trim(parts[1])))
            => hout = [tag |-> "RequestLine",
                       method |-> ToUpper(Trim(parts[1])),
                       target |-> Trim(parts[2]),
                       version |-> ToUpper(Trim(parts[3]))]

\* C23 (amended): the same, the parts being the quote segments whenever the
\* line has exactly two quotes, empty segments included.
C23_RequestLineFromTwoQuoteSplit ==
    LET parts == TwoQuoteParts(hin)
    IN  (hop = "StartLine::from"
         /\ Len(parts) = 3
         /\ IsMethod(Trim(parts[1])))
            => hout = [tag |-> "RequestLine",
                       method |-> ToUpper(Trim(parts[1])),
                       target |-> Trim(parts[2]),
                       version |-> ToUpper(Trim(parts[3]))]

\* A lower-case method, a quoted target with a space in it and nothing after
\* the closing quote: a RequestLine with an empty version.
C23_Witness ==
    /\ hop = "StartLine::from"
    /\ hin = <<"g", "e", "t", "\"", "a", " ", "b", "\"">>
    /\ hout = [tag |-> "RequestLine",
               method |-> <<"G", "E", "T">>,
               target |-> <<"a", " ", "b">>,
               version |-> <<>>]

\* C24: MessageHTTP::from of the empty text, which has no start line,
\* returns the "no Start line" error.
C24_EmptyInputIsNoStartLine ==
    (hop = "MessageHTTP::from" /\ hin = <<>>)
        => hout.tag = "Err" /\ hout.kind = "NoStartLine"

\* ------------------------------------------- claims on the reference driver
\* Server::shutdown has returned true: its Shutdown signal is in the control
\* channel or was taken from it.
ShutdownAccepted == \E i \in 1..Len(reqLog) : reqLog[i].result

\* Every job the pool accepted has been executed once.
PoolDrained ==
    \A id \in 1..Len(sentLog) : IsJob(id) => ran[id] = 1

\* The driver took the Shutdown signal, shut the pool down, waited for the
\* workers and returned.
DriverShutDownCleanly ==
    /\ ShutdownReceived
    /\ shutdownLog # <<>>
    /\ ShutdownOk(1)
    /\ AllWorkersGone
    /\ PoolDrained
    /\ dstate = "returned"

\* C25: with the driver of main.rs, once Server::shutdown has returned true
\* the driver eventually takes the Shutdown signal, shuts down and drains the
\* pool and returns, and the join that main calls has returned Ok, under
\* fair scheduling and when no job aborts; a Code signal taken from the
\* control channel leaves the driver in its loop.
C25_ShutdownStopsReferenceDriver ==
    /\ ShutdownAccepted
           ~> (\/ /\ DriverShutDownCleanly
                  /\ hpc # "joining"
                  /\ (handle = "None" => joinLog = <<"Ok">>)
               \/ ~NoJobAborted)
    /\ [][(ctlRecvLog' # ctlRecvLog /\ ctl # <<>> /\ Head(ctl).kind = "Code")
              => (InLoop /\ InLoop')]_vars

\* A Code and then a Shutdown were sent, the driver took both, ran the job
\* it had accepted, shut the pool down and returned, and join returned Ok.
C25_Witness ==
    /\ ctlSent = <<"Code", "Shutdown">>
    /\ ctlRecvLog = <<1, 2>>
    /\ \E id \in 1..Len(sentLog) : IsJob(id)
    /\ DriverShutDownCleanly
    /\ joinLog = <<"Ok">>

\* C26: a panic inside a job ends only the worker that ran it.  The step that
\* ends the worker is taken with the guard of the Receiver not in that
\* worker's hands, and it changes neither the guard nor the channel nor any
\* other worker.  The lock is not poisoned: under fair scheduling, after an
\* abort the workers that remain empty the channel or end, and a worker that
\* left its loop did so on exactly one termination signal of its own.
AbortStep(w) == wstate[w] = "run" /\ wstate'[w] = "panicked"

C26_JobAbortEndsOnlyItsWorker ==
    /\ [][\A w \in Workers : AbortStep(w) =>
              /\ w \notin lockHeld
              /\ lockHeld' = lockHeld
              /\ chan' = chan
              /\ \A v \in Workers \ {w} :
                     wstate'[v] = wstate[v] /\ wmsg'[v] = wmsg[v]]_vars
    /\ (~NoJobAborted /\ ~AllWorkersGone /\ chan # <<>>)
           ~> (chan = <<>> \/ AllWorkersGone)
    /\ [](~NoJobAborted =>
             \A v \in Workers : wstate[v] = "exited" => TermTaken(v) = 1)

\* One worker has panicked in the first job dequeued; another worker then
\* dequeued a later job, ran it to its end, took a signal and left its loop.
C26_Witness ==
    \E w, v \in Workers :
        /\ wstate[w] = "panicked"
        /\ wstate[v] = "exited"
        /\ TermTaken(v) = 1
        /\ claimLog[1][2] = w
        /\ \E i \in ClaimsOf(v) :
              /\ i > 1
              /\ IsJob(claimLog[i][1])
              /\ ran[claimLog[i][1]] = 1

\* C27: the guard of the Receiver is held exactly while a worker waits for
\* and dequeues a message, never while it runs a job.  A running job keeps no
\* other worker from the channel: a worker at the lock takes it when it is
\* free, and the holder dequeues when a message is there.  Within one worker
\* jobs are sequential: of the jobs a worker dequeued, every one but the job
\* it has in hand has run to its end, unless the worker ended in that job.
UnfinishedOf(w) ==
    {i \in ClaimsOf(w) : IsJob(claimLog[i][1]) /\ ran[claimLog[i][1]] = 0}

C27_GuardHeldOnlyToDequeue ==
    \A w \in Workers :
        /\ w \in lockHeld <=> wstate[w] \in {"recv", "unlink"}
        /\ (wstate[w] = "lock" /\ lockHeld = {}) => ENABLED Lock(w)
        /\ (wstate[w] = "recv" /\ chan # <<>>) => ENABLED RecvRead(w)
        /\ Cardinality(UnfinishedOf(w)) <= 1
        /\ \A i \in UnfinishedOf(w) :
              \/ wstate[w] = "panicked"
              \/ wstate[w] \in {"unlink", "run"} /\ wmsg[w].id = claimLog[i][1]
        /\ wstate[w] = "run" => wmsg[w].id \in {claimLog[i][1] : i \in UnfinishedOf(w)}

\* Two workers are executing two different jobs at the same time, and the
\* guard is free.
C27_Witness ==
    \E w, v \in Workers :
        /\ w # v
        /\ wstate[w] = "run"
        /\ wstate[v] = "run"
        /\ wmsg[w].id # wmsg[v].id
        /\ lockHeld = {}

\* C28: join() completes at most once per Server.  The first call takes the
\* JoinHandle out of the Server; once a join() has returned, a further call
\* finds None, returns nothing and panics in the caller: the only entry the
\* history of join() gets after its first is the abort, and the caller never
\* waits for the driver a second time.
JoinResults == {k \in DOMAIN joinLog : joinLog[k] \in {"Ok", "Err"}}

C28_JoinCompletesAtMostOnce ==
    /\ [](Cardinality(JoinResults) <= 1)
    /\ [](joinLog # <<>> => handle = "None")
    /\ []((hpc = "idle" /\ joinLog # <<>>) =>
             (ENABLED SrvJoinNone /\ ~ENABLED SrvJoinTake))
    /\ [][(joinLog # <<>> /\ joinLog' # joinLog) =>
             /\ joinLog' = Append(joinLog, "Abort")
             /\ hpc = "idle"
             /\ hpc' = "panicked"]_vars
    /\ [][(joinLog # <<>> /\ hpc # "joining") => hpc' # "joining"]_vars

\* The first join() returned Ok, the second one aborted its caller.
C28_Witness ==
    /\ joinLog = <<"Ok", "Abort">>
    /\ hpc = "panicked"
    /\ handle = "None"
    /\ dstate = "returned"

====
